---------------------------- MODULE Spec2Model ----------------------------
(* State engine of the dutch.cards server:                                 *)
(*   src/server/src/composables/use-game-state.js  (store, roster,         *)
(*       projector, startGame, executeCommand)                             *)
(*   src/server/src/server.js                      (transport handler)     *)
(* JavaScript objects are modelled as records, arrays as sequences (the    *)
(* top of a pile is its last element), `undefined` as the string           *)
(* "undefined".  gameState.players is kept as a sequence of player         *)
(* records in key insertion order, which is the order Object.keys yields.  *)
EXTENDS Integers, Sequences, FiniteSets, TLC

(* ------------------------------ bounds --------------------------------- *)

\* longest command log explored
MaxCommands == 4

\* smallest and largest deck the deck generator is configured with
MinDeckSize == 7

MaxDeckSize == 10

\* number of distinct shuffles (rotations of the identifier order) explored
NumShuffles == 2

\* longest command log explored when the transport handler is included
MaxServerCommands == 2

\* longest command log explored at a table of two
MaxTableCommands == 5

\* longest command log explored when stub and unknown commands are sent
MaxVocabularyCommands == 4

\* largest deck the deck generator is configured with at a table of three
MaxDealDeckSize == 14

\* longest command log explored from a lobby of two or three
MaxLobbyCommands == 6

\* number of callbacks the event loop receives
MaxArrivals == 4

\* user identifiers that issue commands
Uids == {"a", "b", "c"}

\* the two of them that sit at the table of two
TableUids == {"a", "b"}

\* command identifiers the clients of the model send: the three implemented
\* commands, one stub and one identifier outside the vocabulary
SentIds == {"connect-to-room", "disconnect-from-room", "toggle-ready",
            "restart-game", "bogus"}

(* --------------------------- program constants ------------------------- *)

CARDS_PER_HAND == 4

Undefined == "undefined"

\* `undefined` where a card object is expected
UndefinedCard == [undefined |-> TRUE]

StubIds == {"restart-game", "call-dutch", "draw-discard-pile",
            "draw-draw-pile", "match-discard", "peek", "replace-discard",
            "swap"}

NeedTwoPlayers == "Need at least two players to start game"

Overdraw == "Overdraw from draw pile"

AlreadyStarted == "Game has already started"

\* message of the TypeError raised by reading a property of undefined
TypeErrorMsg == "Cannot read properties of undefined"

\* "no error": the value of the error slot when nothing was thrown
NoError == "none"

(* ------------------------------ state ---------------------------------- *)

VARIABLES
    gameState,   \* the reactive store
    broadcasts,  \* broadcastUpdate calls made while handling the latest input
    rejects,     \* sendReject calls made while handling the latest input
    thrown,      \* an exception propagated out of the latest executeCommand
    lastArg,     \* first argument of the latest executeCommand call
    message,     \* latest message the transport handler received, if any
    generated,   \* deck returned by the latest generateDeck call
    startCompleted,  \* a startGame call has returned without throwing
    inbox,       \* callbacks the event loop has queued, in arrival order
    active,      \* callbacks that have begun and not yet returned
    handled      \* callbacks begun so far, with the random choices they made

vars == <<gameState, broadcasts, rejects, thrown, lastArg, message, generated,
          startCompleted, inbox, active, handled>>

\* the event loop's part of the state
loopVars == <<inbox, active, handled>>

initGameState ==
    [phase |-> "pregame",
     activePlayerUid |-> Undefined,
     actionQueue |-> <<>>,
     cardMap |-> <<>>,
     discardPile |-> <<>>,
     drawPile |-> <<>>,
     players |-> <<>>,
     commands |-> <<>>]

(* ------------------------------ helpers -------------------------------- *)

\* { ...obj, [k]: v }
Spread(obj, k, v) ==
    [f \in DOMAIN obj \cup {k} |-> IF f = k THEN v ELSE obj[f]]

\* Object.keys(gameState.players)
PlayerUids(gs) == {gs.players[i].uid : i \in DOMAIN gs.players}

\* gameState.players[uid] !== undefined
HasPlayer(gs, uid) == uid \in PlayerUids(gs)

\* index of the entry of uid in gameState.players
IndexOf(gs, uid) == CHOOSE i \in DOMAIN gs.players : gs.players[i].uid = uid

\* gameState.players[uid]
PlayerOf(gs, uid) == gs.players[IndexOf(gs, uid)]

\* gameState.players[uid].<field> = value
SetPlayerField(gs, uid, field, value) ==
    [gs EXCEPT !.players =
        [i \in DOMAIN gs.players |->
            IF gs.players[i].uid = uid
            THEN [gs.players[i] EXCEPT ![field] = value]
            ELSE gs.players[i]]]

\* Array.prototype.sort is stable: entries are ordered by position, and
\* entries with equal positions keep their Object.keys order
SortedIndex(ps, i) ==
    1 + Cardinality({j \in DOMAIN ps :
                        \/ ps[j].position < ps[i].position
                        \/ ps[j].position = ps[i].position /\ j < i})

\* (an array that is in position order already is its own stable sort)
playersArray(gs) ==
    IF \A i \in 1..(Len(gs.players) - 1) :
            gs.players[i].position <= gs.players[i + 1].position
    THEN gs.players
    ELSE [k \in DOMAIN gs.players |->
            gs.players[CHOOSE i \in DOMAIN gs.players :
                            SortedIndex(gs.players, i) = k]]

(* ------------------------------ roster --------------------------------- *)

addPlayer(gs, uid) ==
    LET position == Len(playersArray(gs))
        newPlayer == [uid |-> uid, status |-> "waiting",
                      position |-> position, hand |-> <<>>,
                      isOnline |-> TRUE]
    IN  [gs EXCEPT !.players = Append(gs.players, newPlayer)]

\* delete gameState.players[uid]
DeletePlayer(gs, uid) ==
    LET keep == {i \in DOMAIN gs.players : gs.players[i].uid # uid}
        Nth(k) == CHOOSE i \in keep :
                     Cardinality({j \in keep : j < i}) = k - 1
    IN  [gs EXCEPT !.players =
            [k \in 1..Cardinality(keep) |-> gs.players[Nth(k)]]]

\* mutant of Renumber: the positions are left as they were
RenumberSkipped(gs) == gs

\* playersArray.value.forEach(({ uid }, i) => players[uid].position = i)
Renumber(gs) ==
    [gs EXCEPT !.players =
        [i \in DOMAIN gs.players |->
            [gs.players[i] EXCEPT
                !.position = SortedIndex(gs.players, i) - 1]]]

removePlayer(gs, uid) == Renumber(DeletePlayer(gs, uid))


(* --------------------------- deck generator ---------------------------- *)

\* payload of the card with identifier id in the shuffle-th deck
PayloadOf(id, shuffle) == IF (id + shuffle) % 2 = 0 THEN "AS" ELSE "KH"

\* generateDeck(): size cards with the unique identifiers 1..size, in the
\* order of the shuffle-th shuffle, and the table from identifier to card
generateDeck(size, shuffle) ==
    LET card(id) == [id |-> id, payload |-> PayloadOf(id, shuffle)]
    IN  [deck |-> [k \in 1..size |-> card(((k + shuffle - 1) % size) + 1)],
         cardMap |-> [id \in 1..size |-> card(id)]]

Decks == {generateDeck(size, shuffle) :
            size \in MinDeckSize..MaxDeckSize, shuffle \in 0..(NumShuffles - 1)}

(* ------------------------------ projector ------------------------------ *)

toFaceUp(gs, card) == Spread(gs.cardMap[card.id], "orientation", "up")

\* mutant of toFaceDown: turns the card over but keeps its payload
toFaceDownKeepsPayload(card) == Spread(card, "orientation", "down")

toFaceDown(card) == [id |-> card.id, orientation |-> "down"]

\* the card of a hand as the client sees it
ViewHandCard(gs, card) ==
    IF card.orientation = "up" THEN toFaceUp(gs, card) ELSE toFaceDown(card)

evalClientState(gs, player) ==
    LET discardPileCount == Len(gs.discardPile)
        discardPile ==
            [topCard |-> IF discardPileCount > 0
                         THEN Spread(gs.discardPile[discardPileCount],
                                     "orientation", "up")
                         ELSE UndefinedCard,
             count |-> discardPileCount]
        drawPileCount == Len(gs.drawPile)
        drawPile ==
            [topCard |-> IF drawPileCount > 0
                         THEN toFaceDown(gs.drawPile[drawPileCount])
                         ELSE UndefinedCard,
             count |-> drawPileCount]
        arr == playersArray(gs)
        players ==
            [k \in DOMAIN arr |->
                [arr[k] EXCEPT
                    !.hand = [c \in DOMAIN @ |-> ViewHandCard(gs, @[c])]]]
    IN  [phase |-> gs.phase,
         activePlayerUid |-> gs.activePlayerUid,
         actionQueue |-> <<>>,
         discardPile |-> discardPile,
         drawPile |-> drawPile,
         players |-> players]

(* ------------------------------ startGame ------------------------------ *)

\* Results of the throwing procedures are records
\*   [gs |-> store, error |-> message of the Error thrown or NoError,
\*    generated |-> deck returned by generateDeck, if it was called,
\*    completed |-> startGame was called and returned]

\* const card = gameState.drawPile.pop(); ...hand.push({...card, orientation})
DealCard(res, uid) ==
    IF Len(res.gs.drawPile) = 0
    THEN [res EXCEPT !.error = Overdraw]
    ELSE LET n == Len(res.gs.drawPile)
             card == res.gs.drawPile[n]
             popped == [res.gs EXCEPT !.drawPile = SubSeq(res.gs.drawPile, 1, n - 1)]
             hand == PlayerOf(popped, uid).hand
         IN  [res EXCEPT !.gs =
                SetPlayerField(popped, uid, "hand",
                    Append(hand, Spread(card, "orientation", "down")))]

\* one playersArray.value.forEach of the dealing loop, from its j-th entry
RECURSIVE DealRound(_, _, _)
DealRound(res, order, j) ==
    IF j > Len(order) \/ res.error # NoError
    THEN res
    ELSE DealRound(DealCard(res, order[j].uid), order, j + 1)

\* CARDS_PER_HAND cards in a row to one player, from the k-th
RECURSIVE DealHand(_, _, _)
DealHand(res, uid, k) ==
    IF k > CARDS_PER_HAND \/ res.error # NoError
    THEN res
    ELSE DealHand(DealCard(res, uid), uid, k + 1)

\* mutant of DealRounds: the loops are nested the other way round, each
\* player is dealt a whole hand before the next one, from player i
RECURSIVE DealRoundsByPlayer(_, _)
DealRoundsByPlayer(res, i) ==
    IF i > Len(playersArray(res.gs)) \/ res.error # NoError
    THEN res
    ELSE DealRoundsByPlayer(DealHand(res, playersArray(res.gs)[i].uid, 1), i + 1)

\* mutant of DealRounds: the loop stops one round early (i < CARDS_PER_HAND)
RECURSIVE DealRoundsShort(_, _)
DealRoundsShort(res, i) ==
    IF i >= CARDS_PER_HAND \/ res.error # NoError
    THEN res
    ELSE DealRoundsShort(DealRound(res, playersArray(res.gs), 1), i + 1)

\* for (let i = 1; i <= CARDS_PER_HAND; i++), from round i
RECURSIVE DealRounds(_, _)
DealRounds(res, i) ==
    IF i > CARDS_PER_HAND \/ res.error # NoError
    THEN res
    ELSE DealRounds(DealRound(res, playersArray(res.gs), 1), i + 1)

\* mutant of StartDiscard: reads the top card without popping it
StartDiscardKeepsCard(res) ==
    IF res.error # NoError
    THEN res
    ELSE IF Len(res.gs.drawPile) = 0
    THEN [res EXCEPT !.error = Overdraw]
    ELSE [res EXCEPT
            !.gs.discardPile =
                Append(res.gs.discardPile, res.gs.drawPile[Len(res.gs.drawPile)])]

\* Start discard pile
StartDiscard(res) ==
    IF res.error # NoError
    THEN res
    ELSE IF Len(res.gs.drawPile) = 0
    THEN [res EXCEPT !.error = Overdraw]
    ELSE LET n == Len(res.gs.drawPile)
         IN  [res EXCEPT
                !.gs.drawPile = SubSeq(res.gs.drawPile, 1, n - 1),
                !.gs.discardPile = Append(res.gs.discardPile, res.gs.drawPile[n])]

\* mutant of startGame: the guard is off by one (length < 1)
startGameOffByOne(res, startingPlayer, random, fresh) ==
    IF Len(playersArray(res.gs)) < 1
    THEN [res EXCEPT !.error = NeedTwoPlayers]
    ELSE LET randomPlayer == playersArray(res.gs)[random + 1]
             installed ==
                [res EXCEPT
                    !.gs.phase = "ingame",
                    !.gs.activePlayerUid =
                        IF startingPlayer # Undefined THEN startingPlayer
                        ELSE randomPlayer.uid,
                    !.gs.drawPile = fresh.deck,
                    !.gs.cardMap = fresh.cardMap,
                    !.generated = fresh.deck]
             seeded == StartDiscard(DealRounds(installed, 1))
         IN  [seeded EXCEPT !.completed = (seeded.error = NoError)]


\* startGame(startingPlayer); random is (playersArray.length * Math.random()) | 0
\* and fresh is what generateDeck() returns
startGame(res, startingPlayer, random, fresh) ==
    IF Len(playersArray(res.gs)) <= 1
    THEN [res EXCEPT !.error = NeedTwoPlayers]
    ELSE LET randomPlayer == playersArray(res.gs)[random + 1]
             installed ==
                [res EXCEPT
                    !.gs.phase = "ingame",
                    !.gs.activePlayerUid =
                        IF startingPlayer # Undefined THEN startingPlayer
                        ELSE randomPlayer.uid,
                    !.gs.drawPile = fresh.deck,
                    !.gs.cardMap = fresh.cardMap,
                    !.generated = fresh.deck]
             seeded == StartDiscard(DealRounds(installed, 1))
         IN  [seeded EXCEPT !.completed = (seeded.error = NoError)]


(* ---------------------------- executeCommand --------------------------- *)

\* the status flip of toggle-ready
ToggleStatus(gs, player) ==
    LET status == PlayerOf(gs, player).status
    IN  IF status = "waiting" THEN SetPlayerField(gs, player, "status", "ready")
        ELSE IF status = "ready" THEN SetPlayerField(gs, player, "status", "waiting")
        ELSE gs

\* playersArray.value.every(({ status }) => status === "ready")
EveryReady(gs) == \A i \in DOMAIN gs.players : gs.players[i].status = "ready"

\* mutant of ConnectCase: an unknown uid is seated whatever the phase
ConnectCaseAlwaysAdds(res, player) ==
    IF ~HasPlayer(res.gs, player)
    THEN [res EXCEPT !.gs = addPlayer(res.gs, player)]
    ELSE [res EXCEPT !.gs = SetPlayerField(res.gs, player, "isOnline", TRUE)]

\* case "connect-to-room"
ConnectCase(res, player) ==
    IF ~HasPlayer(res.gs, player)
    THEN IF res.gs.phase = "pregame"
         THEN [res EXCEPT !.gs = addPlayer(res.gs, player)]
         ELSE res
    ELSE [res EXCEPT !.gs = SetPlayerField(res.gs, player, "isOnline", TRUE)]

\* mutant of DisconnectCase: the player is marked offline whatever the phase
DisconnectCaseMarksOffline(res, player) ==
    IF HasPlayer(res.gs, player)
    THEN [res EXCEPT !.gs = SetPlayerField(res.gs, player, "isOnline", FALSE)]
    ELSE res

\* mutant of DisconnectCase: the player is removed whatever the phase
DisconnectCaseAlwaysRemoves(res, player) ==
    IF HasPlayer(res.gs, player)
    THEN [res EXCEPT !.gs = removePlayer(res.gs, player)]
    ELSE res

\* case "disconnect-from-room"
DisconnectCase(res, player) ==
    IF HasPlayer(res.gs, player)
    THEN IF res.gs.phase = "ingame"
         THEN [res EXCEPT !.gs = SetPlayerField(res.gs, player, "isOnline", FALSE)]
         ELSE [res EXCEPT !.gs = removePlayer(res.gs, player)]
    ELSE res

\* mutant of ToggleReadyCase: the status is read with optional chaining, so
\* a uid that is not seated flips nothing and nothing throws
ToggleReadyCaseLenient(res, player, random, fresh) ==
    IF res.gs.phase = "ingame"
    THEN [res EXCEPT !.error = AlreadyStarted]
    ELSE LET flipped == IF HasPlayer(res.gs, player)
                        THEN [res EXCEPT !.gs = ToggleStatus(res.gs, player)]
                        ELSE res
         IN  IF EveryReady(flipped.gs)
             THEN startGame(flipped, Undefined, random, fresh)
             ELSE flipped

\* mutant of ToggleReadyCase: the roster is examined before the flip
ToggleReadyCaseChecksFirst(res, player, random, fresh) ==
    IF res.gs.phase = "ingame"
    THEN [res EXCEPT !.error = AlreadyStarted]
    ELSE IF ~HasPlayer(res.gs, player)
    THEN [res EXCEPT !.error = TypeErrorMsg]
    ELSE LET flipped == [res EXCEPT !.gs = ToggleStatus(res.gs, player)]
         IN  IF EveryReady(res.gs)
             THEN startGame(flipped, Undefined, random, fresh)
             ELSE flipped

\* mutant of ToggleReadyCase: the check of the phase is missing
ToggleReadyCaseUnguarded(res, player, random, fresh) ==
    IF ~HasPlayer(res.gs, player)
    THEN [res EXCEPT !.error = TypeErrorMsg]
    ELSE LET flipped == [res EXCEPT !.gs = ToggleStatus(res.gs, player)]
         IN  IF EveryReady(flipped.gs)
             THEN startGame(flipped, Undefined, random, fresh)
             ELSE flipped

\* case "toggle-ready"; reading .status of a player that is not in
\* gameState.players throws a TypeError
ToggleReadyCase(res, player, random, fresh) ==
    IF res.gs.phase = "ingame"
    THEN [res EXCEPT !.error = AlreadyStarted]
    ELSE IF ~HasPlayer(res.gs, player)
    THEN [res EXCEPT !.error = TypeErrorMsg]
    ELSE LET flipped == [res EXCEPT !.gs = ToggleStatus(res.gs, player)]
         IN  IF EveryReady(flipped.gs)
             THEN startGame(flipped, Undefined, random, fresh)
             ELSE flipped

\* mutant of Dispatch: an identifier that matches no case is an error
DispatchDefaultThrows(res, player, command, random, fresh) ==
    CASE command.id = "connect-to-room" -> ConnectCase(res, player)
      [] command.id = "disconnect-from-room" -> DisconnectCase(res, player)
      [] command.id = "toggle-ready" ->
            ToggleReadyCase(res, player, random, fresh)
      [] command.id \in StubIds -> res
      [] OTHER -> [res EXCEPT !.error = TypeErrorMsg]

\* mutant of Dispatch: restart-game puts the store back in pregame
DispatchRestarts(res, player, command, random, fresh) ==
    CASE command.id = "connect-to-room" -> ConnectCase(res, player)
      [] command.id = "disconnect-from-room" -> DisconnectCase(res, player)
      [] command.id = "toggle-ready" ->
            ToggleReadyCase(res, player, random, fresh)
      [] command.id = "restart-game" -> [res EXCEPT !.gs.phase = "pregame"]
      [] OTHER -> res

\* the switch on command.id: the eight stub cases are empty and an
\* identifier outside the vocabulary matches no case
Dispatch(res, player, command, random, fresh) ==
    CASE command.id = "connect-to-room" -> ConnectCase(res, player)
      [] command.id = "disconnect-from-room" -> DisconnectCase(res, player)
      [] command.id = "toggle-ready" ->
            ToggleReadyCase(res, player, random, fresh)
      [] command.id \in StubIds -> res
      [] OTHER -> res

\* Object.keys(gameState.players).reduce(... evalClientState(uid) ...)
ClientStates(gs) == [uid \in PlayerUids(gs) |-> evalClientState(gs, uid)]

\* const { player, command } = <first argument>
PlayerArg(arg) == IF "player" \in DOMAIN arg THEN arg.player ELSE Undefined

HasCommand(arg) == "command" \in DOMAIN arg

\* the switch statement; reading command.id of an undefined command throws
Switch(start, arg, random, fresh) ==
    IF HasCommand(arg)
    THEN Dispatch(start, PlayerArg(arg), arg.command, random, fresh)
    ELSE [start EXCEPT !.error = TypeErrorMsg]

\* mutant of TryTail: the log entry is put in front (unshift for push)
TryTailUnshifts(switched, arg) ==
    IF switched.error = NoError
    THEN [gs |-> [switched.gs EXCEPT
                    !.commands = <<[player |-> PlayerArg(arg),
                                    command |-> arg.command]>> \o @],
          broadcasts |-> <<ClientStates(switched.gs)>>,
          error |-> IF PlayerArg(arg) = Undefined THEN TypeErrorMsg ELSE NoError,
          generated |-> switched.generated,
          completed |-> switched.completed]
    ELSE [gs |-> switched.gs,
          broadcasts |-> <<>>,
          error |-> switched.error,
          generated |-> switched.generated,
          completed |-> switched.completed]

\* the rest of the try block: broadcast, log append, console.log (whose
\* player.substring throws for an undefined player)
TryTail(switched, arg) ==
    IF switched.error = NoError
    THEN [gs |-> [switched.gs EXCEPT
                    !.commands = Append(@, [player |-> PlayerArg(arg),
                                            command |-> arg.command])],
          broadcasts |-> <<ClientStates(switched.gs)>>,
          error |-> IF PlayerArg(arg) = Undefined THEN TypeErrorMsg ELSE NoError,
          generated |-> switched.generated,
          completed |-> switched.completed]
    ELSE [gs |-> switched.gs,
          broadcasts |-> <<>>,
          error |-> switched.error,
          generated |-> switched.generated,
          completed |-> switched.completed]

\* mutant of Catch: the broadcast is sent whether or not the command failed
CatchBroadcastsToo(try, arg) ==
    LET caught == try.error # NoError
    IN  [gs |-> try.gs,
         broadcasts |-> <<ClientStates(try.gs)>>,
         rejects |-> IF caught /\ HasCommand(arg)
                     THEN <<[to |-> PlayerArg(arg),
                             msg |-> [id |-> "reject",
                                      commandId |-> arg.command.id,
                                      reason |-> try.error]]>>
                     ELSE <<>>,
         thrown |-> caught /\ (~HasCommand(arg) \/ PlayerArg(arg) = Undefined),
         generated |-> try.generated,
         completed |-> try.completed]

\* the catch block: sendReject, console.log.  Building the reject reads
\* command.id and the log line reads player.substring: either throws again
\* when the value is undefined, and that exception leaves executeCommand
Catch(try, arg) ==
    LET caught == try.error # NoError
    IN  [gs |-> try.gs,
         broadcasts |-> try.broadcasts,
         rejects |-> IF caught /\ HasCommand(arg)
                     THEN <<[to |-> PlayerArg(arg),
                             msg |-> [id |-> "reject",
                                      commandId |-> arg.command.id,
                                      reason |-> try.error]]>>
                     ELSE <<>>,
         thrown |-> caught /\ (~HasCommand(arg) \/ PlayerArg(arg) = Undefined),
         generated |-> try.generated,
         completed |-> try.completed]

\* executeCommand(arg): the store and the gateway calls it ends with, and
\* whether an exception leaves it
executeCommand(gs, arg, random, fresh, deck, completed) ==
    LET start == [gs |-> gs, error |-> NoError, generated |-> deck,
                  completed |-> completed]
    IN  Catch(TryTail(Switch(start, arg, random, fresh), arg), arg)

\* the store and the gateway calls after the calls hs of executeCommand
\* have run one after the other, each as a whole
RECURSIVE Replay(_, _)
Replay(res, hs) ==
    IF hs = <<>> THEN res
    ELSE Replay(executeCommand(res.gs, hs[1].arg, hs[1].random, hs[1].fresh,
                               res.generated, res.completed),
                Tail(hs))

\* the store and the gateway before the first call
BeforeAll ==
    [gs |-> initGameState, broadcasts |-> <<>>, rejects |-> <<>>,
     thrown |-> FALSE, generated |-> <<>>, completed |-> FALSE]

(* ------------------------------- actions ------------------------------- *)

\* the call would reach startGame's random choice and generateDeck
ReachesDeal(arg) ==
    /\ "command" \in DOMAIN arg /\ "player" \in DOMAIN arg
    /\ arg.command.id = "toggle-ready"
    /\ gameState.phase = "pregame"
    /\ HasPlayer(gameState, arg.player)
    /\ Len(gameState.players) > 1
    /\ EveryReady(ToggleStatus(gameState, arg.player))

\* one call of executeCommand(arg) with a log of at most cap entries, the
\* deck generator returning one of decks
CallWith(arg, cap, decks) ==
    \E random \in IF ReachesDeal(arg) THEN 0..(Len(gameState.players) - 1) ELSE {0} :
      \E fresh \in IF ReachesDeal(arg) THEN decks ELSE {generateDeck(MinDeckSize, 0)} :
        \E r \in {executeCommand(gameState, arg, random, fresh, generated,
                                startCompleted)} :
            /\ Len(r.gs.commands) <= cap
            /\ gameState' = r.gs
            /\ broadcasts' = r.broadcasts
            /\ rejects' = r.rejects
            /\ thrown' = r.thrown
            /\ lastArg' = arg
            /\ generated' = r.generated
            /\ startCompleted' = r.completed
            /\ UNCHANGED loopVars

\* one call of executeCommand(arg) with a log of at most cap entries
Call(arg, cap) == CallWith(arg, cap, Decks)

ClientCommand(uid, id) == [player |-> uid, command |-> [id |-> id]]

NoMessage == [json |-> "none"]

NoCall == [called |-> FALSE]

ConnectToRoom(uid, cap) ==
    /\ Call(ClientCommand(uid, "connect-to-room"), cap)
    /\ message' = NoMessage

DisconnectFromRoom(uid, cap) ==
    /\ Call(ClientCommand(uid, "disconnect-from-room"), cap)
    /\ message' = NoMessage

ToggleReady(uid, cap) ==
    /\ Call(ClientCommand(uid, "toggle-ready"), cap)
    /\ message' = NoMessage

\* a command whose case is empty or that matches no case
OtherCommand(uid, id, cap) ==
    /\ Call(ClientCommand(uid, id), cap)
    /\ message' = NoMessage

OtherIds == SentIds \ {"connect-to-room", "disconnect-from-room", "toggle-ready"}

(* ------------------------------ the deal ------------------------------- *)

\* the orders in which two or more of the users can have taken their seats
Seatings ==
    {order \in UNION {[1..n -> Uids] : n \in 2..Cardinality(Uids)} :
        \A i, j \in DOMAIN order : i # j => order[i] # order[j]}

\* the calls that seat the users of order and make all of them but the
\* one at seat w ready
LobbyCalls(order, w) ==
    LET call(uid, id) == [arg |-> ClientCommand(uid, id), random |-> 0,
                          fresh |-> generateDeck(MinDeckSize, 0)]
        ready == SelectSeq(order, LAMBDA uid : uid # order[w])
    IN  [k \in DOMAIN order |-> call(order[k], "connect-to-room")]
        \o [k \in DOMAIN ready |-> call(ready[k], "toggle-ready")]

\* the store after those calls: one toggle-ready short of the deal
Lobby(order, w) == Replay(BeforeAll, LobbyCalls(order, w)).gs

\* decks the deck generator returns at a table of up to three
DealDecks ==
    {generateDeck(size, shuffle) :
        size \in MinDeckSize..MaxDealDeckSize, shuffle \in 0..(NumShuffles - 1)}

\* one more toggle-ready at the table
ToggleReadyAtTable(uid) ==
    /\ CallWith(ClientCommand(uid, "toggle-ready"),
                2 * Len(gameState.players), DealDecks)
    /\ message' = NoMessage

\* a toggle-ready in a lobby whose deck generator is configured with the
\* largest deck
ToggleReadyInLobby(uid) ==
    /\ CallWith(ClientCommand(uid, "toggle-ready"), MaxLobbyCommands,
                {generateDeck(MaxDeckSize, 0)})
    /\ message' = NoMessage

(* --------------------------- transport handler ------------------------- *)

\* the WebSocket of the connection: an object with neither a player nor a
\* command property
WebSocket == [readyState |-> "OPEN"]

\* messages a connection delivers: the JSON text of a client command, or
\* text that JSON.parse rejects
Messages ==
    {[json |-> "ok", value |-> ClientCommand(uid, id)] :
        uid \in Uids, id \in {"connect-to-room", "toggle-ready"}}
    \cup {[json |-> "bad"]}

\* ws.on("message"): JSON.parse, then executeCommand(ws, clientCommand);
\* whatever is thrown is caught and printed
OnMessage(msg) ==
    /\ message' = msg
    /\ IF msg.json = "ok"
       THEN Call(WebSocket, MaxServerCommands)
       ELSE /\ broadcasts' = <<>>
            /\ rejects' = <<>>
            /\ thrown' = FALSE
            /\ lastArg' = NoCall
            /\ UNCHANGED <<gameState, generated, startCompleted>>
            /\ UNCHANGED loopVars

(* ------------------------------ event loop ----------------------------- *)

\* callbacks the event loop is given: the message callback of a connection
\* whose text parses, and calls of executeCommand with a uid and a command
Callbacks ==
    {[kind |-> "message", value |-> ClientCommand("a", "connect-to-room")]}
    \cup {[kind |-> "call", value |-> ClientCommand(uid, id)] :
            uid \in TableUids, id \in {"connect-to-room", "toggle-ready"}}

\* first argument of the executeCommand call the callback makes
ArgOf(cb) == IF cb.kind = "message" THEN WebSocket ELSE cb.value

\* mutant of AwaitPoints: the broadcast is awaited
AwaitsBroadcast == {"broadcast"}

\* the points at which a running callback awaits, so that the event loop
\* may run another callback before it resumes: the message callback and
\* executeCommand contain no await
AwaitPoints == {}

\* a message event or a call is queued
Arrive(cb) ==
    /\ Len(inbox) + Len(handled) < MaxArrivals
    /\ inbox' = Append(inbox, cb)
    /\ UNCHANGED <<gameState, broadcasts, rejects, thrown, lastArg, message,
                   generated, startCompleted, active, handled>>

\* the event loop takes the oldest callback once every callback that has
\* begun has returned or is waiting at an await; the callback enters
\* executeCommand
BeginCallback ==
    /\ inbox # <<>>
    /\ \A i \in DOMAIN active : active[i].pc \in AwaitPoints
    /\ inbox' = Tail(inbox)
    /\ handled' = Append(handled, [arg |-> ArgOf(Head(inbox)), random |-> 0,
                                   fresh |-> generateDeck(MinDeckSize, 0)])
    /\ active' = Append(active, [n |-> Len(handled) + 1, pc |-> "switch",
                                 error |-> NoError])
    /\ broadcasts' = <<>>
    /\ rejects' = <<>>
    /\ thrown' = FALSE
    /\ lastArg' = ArgOf(Head(inbox))
    /\ UNCHANGED <<gameState, message, generated, startCompleted>>

\* active without its i-th callback, which has returned
Return(i) ==
    [k \in 1..(Len(active) - 1) |-> IF k < i THEN active[k] ELSE active[k + 1]]

\* the store as the running callback finds it
Current ==
    [gs |-> gameState, error |-> NoError, generated |-> generated,
     completed |-> startCompleted]

\* the switch statement of the i-th callback
SwitchStep(i) ==
    /\ active[i].pc = "switch"
    /\ \E arg \in {handled[active[i].n].arg} :
        \E random \in IF ReachesDeal(arg) THEN 0..(Len(gameState.players) - 1)
                      ELSE {0} :
          \E fresh \in IF ReachesDeal(arg) THEN Decks
                       ELSE {generateDeck(MinDeckSize, 0)} :
            \E switched \in {Switch(Current, arg, random, fresh)} :
                /\ gameState' = switched.gs
                /\ generated' = switched.generated
                /\ startCompleted' = switched.completed
                /\ handled' = [handled EXCEPT ![active[i].n] =
                                [arg |-> arg, random |-> random, fresh |-> fresh]]
                /\ active' = [active EXCEPT
                                ![i].pc = IF switched.error = NoError
                                          THEN "broadcast" ELSE "catch",
                                ![i].error = switched.error]
    /\ UNCHANGED <<broadcasts, rejects, thrown, lastArg, message, inbox>>

\* broadcastUpdate(clientStates) of the i-th callback
BroadcastStep(i) ==
    /\ active[i].pc = "broadcast"
    /\ broadcasts' = TryTail(Current, handled[active[i].n].arg).broadcasts
    /\ active' = [active EXCEPT ![i].pc = "push"]
    /\ UNCHANGED <<gameState, rejects, thrown, lastArg, message, generated,
                   startCompleted, inbox, handled>>

\* gameState.commands.push and console.log of the i-th callback, which then
\* returns
PushStep(i) ==
    /\ active[i].pc = "push"
    /\ \E tail \in {TryTail(Current, handled[active[i].n].arg)} :
        /\ gameState' = tail.gs
        /\ active' = IF tail.error = NoError THEN Return(i)
                     ELSE [active EXCEPT ![i].pc = "catch",
                                         ![i].error = tail.error]
    /\ UNCHANGED <<broadcasts, rejects, thrown, lastArg, message, generated,
                   startCompleted, inbox, handled>>

\* the catch block of the i-th callback, which then returns
CatchStep(i) ==
    /\ active[i].pc = "catch"
    /\ \E caught \in {Catch([gs |-> gameState, broadcasts |-> broadcasts,
                              error |-> active[i].error,
                              generated |-> generated,
                              completed |-> startCompleted],
                             handled[active[i].n].arg)} :
        /\ rejects' = caught.rejects
        /\ thrown' = caught.thrown
    /\ active' = Return(i)
    /\ UNCHANGED <<gameState, broadcasts, lastArg, message, generated,
                   startCompleted, inbox, handled>>

(* ---------------------------- specifications --------------------------- *)

Init ==
    /\ gameState = initGameState
    /\ broadcasts = <<>>
    /\ rejects = <<>>
    /\ thrown = FALSE
    /\ lastArg = NoCall
    /\ message = NoMessage
    /\ generated = <<>>
    /\ startCompleted = FALSE
    /\ inbox = <<>>
    /\ active = <<>>
    /\ handled = <<>>

\* the engine driven through executeCommand by commands of the three
\* implemented kinds
Next ==
    \E uid \in Uids :
        \/ ConnectToRoom(uid, MaxCommands)
        \/ DisconnectFromRoom(uid, MaxCommands)
        \/ ToggleReady(uid, MaxCommands)

Spec == Init /\ [][Next]_vars

\* the engine driven by two users, with a longer log
NextTable ==
    \E uid \in TableUids :
        \/ ConnectToRoom(uid, MaxTableCommands)
        \/ DisconnectFromRoom(uid, MaxTableCommands)
        \/ ToggleReady(uid, MaxTableCommands)

SpecTable == Init /\ [][NextTable]_vars

\* the engine driven by the transport handler as well, over the whole
\* command vocabulary of the model
NextServer ==
    \/ \E msg \in Messages : OnMessage(msg)
    \/ \E uid \in Uids :
        \/ ConnectToRoom(uid, MaxServerCommands)
        \/ DisconnectFromRoom(uid, MaxServerCommands)
        \/ ToggleReady(uid, MaxServerCommands)
        \/ \E id \in OtherIds : OtherCommand(uid, id, MaxServerCommands)

SpecServer == Init /\ [][NextServer]_vars

\* the engine driven by two users who also send a stub command and a
\* command outside the vocabulary
NextVocabulary ==
    \/ \E uid \in TableUids :
        \/ ConnectToRoom(uid, MaxVocabularyCommands)
        \/ DisconnectFromRoom(uid, MaxVocabularyCommands)
        \/ ToggleReady(uid, MaxVocabularyCommands)
    \/ OtherCommand("a", "restart-game", MaxVocabularyCommands)
    \/ OtherCommand("b", "bogus", MaxVocabularyCommands)

SpecVocabulary == Init /\ [][NextVocabulary]_vars

\* a lobby of two or three seated users in which one is still waiting
InitDeal ==
    /\ \E order \in Seatings : \E w \in DOMAIN order :
            gameState = Lobby(order, w)
    /\ broadcasts = <<>>
    /\ rejects = <<>>
    /\ thrown = FALSE
    /\ lastArg = NoCall
    /\ message = NoMessage
    /\ generated = <<>>
    /\ startCompleted = FALSE
    /\ inbox = <<>>
    /\ active = <<>>
    /\ handled = <<>>

\* the toggle-ready commands that follow in such a lobby
NextDeal == \E uid \in Uids : ToggleReadyAtTable(uid)

SpecDeal == InitDeal /\ [][NextDeal]_vars

\* the engine driven by three users from such a lobby
NextLobby ==
    \E uid \in Uids :
        \/ ConnectToRoom(uid, MaxLobbyCommands)
        \/ DisconnectFromRoom(uid, MaxLobbyCommands)
        \/ ToggleReadyInLobby(uid)

SpecLobby == InitDeal /\ [][NextLobby]_vars

\* the engine driven by the event loop, one statement group at a time
NextLoop ==
    \/ \E cb \in Callbacks : Arrive(cb)
    \/ BeginCallback
    \/ \E i \in DOMAIN active :
        \/ SwitchStep(i)
        \/ BroadcastStep(i)
        \/ PushStep(i)
        \/ CatchStep(i)

SpecLoop == Init /\ [][NextLoop]_vars

(* ------------------------------- claims -------------------------------- *)

\* the latest input was a call of executeCommand with a client command
CalledWith(id) ==
    /\ "command" \in DOMAIN lastArg
    /\ lastArg.command.id = id

\* the latest call ended in the catch block's sendReject
Rejected == rejects # <<>>

\* the latest call ended in the try block's broadcastUpdate
Accepted == broadcasts # <<>> /\ rejects = <<>>

RejectedWith(reason) == Rejected /\ rejects[1].msg.reason = reason

\* C1: a command that executeCommand ends by rejecting leaves the whole
\* GameState as it was before the call.
C1_RejectedLeavesStateUntouched ==
    [][Rejected' => gameState' = gameState]_vars

\* the step is a toggle-ready of a seated player that makes every seated
\* player ready, in pregame: the call reaches startGame
TriggersStart ==
    /\ gameState.phase = "pregame"
    /\ CalledWith("toggle-ready")'
    /\ HasPlayer(gameState, lastArg'.player)
    /\ EveryReady(ToggleStatus(gameState, lastArg'.player))

\* no seated player holds a card
HandsEmpty(gs) == \A i \in DOMAIN gs.players : gs.players[i].hand = <<>>

\* C2: when the generated deck has fewer than 4*n+1 cards for n >= 2 seated
\* players, the toggle-ready that triggers startGame is rejected with the
\* overdraw reason and afterwards phase is pregame, activePlayerUid is
\* unset, every hand is empty and the piles and cardMap are as before.
C2_OverdrawLeavesNoPartialState ==
    [][(/\ TriggersStart
        /\ Len(gameState.players) >= 2
        /\ Len(generated') < CARDS_PER_HAND * Len(gameState.players) + 1)
       => /\ RejectedWith(Overdraw)'
          /\ gameState'.phase = "pregame"
          /\ gameState'.activePlayerUid = Undefined
          /\ HandsEmpty(gameState')
          /\ gameState'.drawPile = gameState.drawPile
          /\ gameState'.discardPile = gameState.discardPile
          /\ gameState'.cardMap = gameState.cardMap]_vars

\* the positions of the seated players are exactly 0..n-1, each held once
DensePositions(gs) ==
    \A k \in 0..(Len(gs.players) - 1) :
        Cardinality({i \in DOMAIN gs.players : gs.players[i].position = k}) = 1

\* uids of the seated players in position order
Seating(gs) == [k \in DOMAIN gs.players |-> playersArray(gs)[k].uid]

\* s without its entries equal to x
RECURSIVE Without(_, _)
Without(s, x) ==
    IF s = <<>> THEN <<>>
    ELSE IF s[1] = x THEN Without(Tail(s), x)
    ELSE <<s[1]>> \o Without(Tail(s), x)

\* C3: in every reachable state the positions of the seated players are a
\* dense permutation of 0..n-1; a newly added player gets position n (the
\* player count before the add); removing a player renumbers the others
\* preserving their relative order.
C3_PositionsDense ==
    /\ []DensePositions(gameState)
    /\ [][/\ \A uid \in PlayerUids(gameState') \ PlayerUids(gameState) :
                /\ PlayerOf(gameState', uid).position = Len(gameState.players)
                /\ Seating(gameState') = Append(Seating(gameState), uid)
          /\ \A uid \in PlayerUids(gameState) \ PlayerUids(gameState') :
                Seating(gameState') = Without(Seating(gameState), uid)]_vars

\* a player was removed from the head of a table of three
C3_Witness ==
    /\ Len(gameState.commands) = 4
    /\ gameState.commands[1] = ClientCommand("a", "connect-to-room")
    /\ gameState.commands[4] = ClientCommand("a", "disconnect-from-room")
    /\ Seating(gameState) = <<"b", "c">>

\* where the card with identifier id lies: <<pile or hand, owner, index>>
Locations(gs, id) ==
    {<<"draw", 0, k>> : k \in {k \in DOMAIN gs.drawPile : gs.drawPile[k].id = id}}
    \cup {<<"discard", 0, k>> :
            k \in {k \in DOMAIN gs.discardPile : gs.discardPile[k].id = id}}
    \cup UNION {{<<"hand", i, k>> :
                    k \in {k \in DOMAIN gs.players[i].hand :
                                gs.players[i].hand[k].id = id}} :
                i \in DOMAIN gs.players}

\* identifiers of the deck the latest startGame installed
DealtIds == {generated[k].id : k \in DOMAIN generated}

\* C4: from the completion of startGame onward (deck of N >= 4*n+1 unique
\* identifiers) every dealt identifier occurs exactly once in the union of
\* the hands, the draw pile and the discard pile, and has a cardMap entry.
C4_CardConservation ==
    (/\ startCompleted
     /\ Len(generated) >= CARDS_PER_HAND * Len(gameState.players) + 1)
    => \A id \in DealtIds :
         /\ Cardinality(Locations(gameState, id)) = 1
         /\ id \in DOMAIN gameState.cardMap

\* a command was accepted after a game of two was dealt from nine cards
C4_Witness ==
    /\ startCompleted
    /\ Len(generated) = 9
    /\ Len(gameState.players) = 2
    /\ CalledWith("disconnect-from-room")
    /\ Accepted

\* the payload the redaction puts on a hidden card
Hidden == "hidden"

Redacted(card) == [card EXCEPT !.payload = Hidden]

\* identifiers of the cards whose payload no view may show: the draw pile,
\* the hand cards stored face down, the discard pile below its top
HiddenIds(gs) ==
    {gs.drawPile[k].id : k \in DOMAIN gs.drawPile}
    \cup {gs.discardPile[k].id : k \in 1..(Len(gs.discardPile) - 1)}
    \cup UNION {{gs.players[i].hand[k].id :
                    k \in {k \in DOMAIN gs.players[i].hand :
                                gs.players[i].hand[k].orientation = "down"}} :
                i \in DOMAIN gs.players}

\* gs with the payload of every hidden card replaced, in the piles, in the
\* hands and in cardMap: states that differ only in hidden payloads have the
\* same redaction
Redact(gs) ==
    LET hide(card) == IF card.id \in HiddenIds(gs) THEN Redacted(card) ELSE card
    IN  [gs EXCEPT
            !.drawPile = [k \in DOMAIN @ |-> hide(@[k])],
            !.discardPile = [k \in DOMAIN @ |-> hide(@[k])],
            !.cardMap = [id \in DOMAIN @ |-> hide(@[id])],
            !.players = [i \in DOMAIN @ |->
                            [@[i] EXCEPT
                                !.hand = [k \in DOMAIN @ |-> hide(@[k])]]]]

\* C5: for every viewer the view of evalClientState shows of the draw pile
\* only the count and the top card as identifier with orientation down, of
\* a hand card stored face down only identifier and orientation, of the
\* discard pile only its top card and count; it is the same for two states
\* that differ only in hidden payloads (it equals the view of the redacted
\* state).
C5_HiddenInformation ==
    \A viewer \in Uids :
      \A view \in {evalClientState(gameState, viewer)} :
        \A arr \in {playersArray(gameState)} :
            /\ view = evalClientState(Redact(gameState), viewer)
            /\ DOMAIN view.drawPile = {"topCard", "count"}
            /\ DOMAIN view.discardPile = {"topCard", "count"}
            /\ Len(gameState.drawPile) > 0 =>
                    view.drawPile.topCard =
                        [id |-> gameState.drawPile[Len(gameState.drawPile)].id,
                         orientation |-> "down"]
            /\ \A k \in DOMAIN arr : \A c \in DOMAIN arr[k].hand :
                    arr[k].hand[c].orientation = "down" =>
                        view.players[k].hand[c] =
                            [id |-> arr[k].hand[c].id, orientation |-> "down"]

\* a dealt game: hands and draw pile hold cards whose payload is hidden
C5_Witness ==
    /\ startCompleted
    /\ Len(gameState.drawPile) > 0
    /\ \A i \in DOMAIN gameState.players : Len(gameState.players[i].hand) = 4
    /\ Redact(gameState) # gameState

\* the uid of the command the step executes
Issuer == lastArg'.player

\* C6: with n >= 2 seated players and a sufficient deck, the toggle-ready
\* that makes the last waiting player ready puts phase at ingame (a waiting
\* player's toggle-ready that leaves someone waiting only makes that player
\* ready); phase never leaves ingame; every toggle-ready issued in ingame
\* is rejected with 'Game has already started' and changes nothing.
C6_ReadyConsensusStartsOnce ==
    [][/\ (/\ TriggersStart
           /\ Len(gameState.players) >= 2
           /\ Len(generated') >= CARDS_PER_HAND * Len(gameState.players) + 1)
          => /\ Accepted'
             /\ gameState'.phase = "ingame"
       /\ (/\ gameState.phase = "pregame"
           /\ CalledWith("toggle-ready")'
           /\ HasPlayer(gameState, Issuer)
           /\ PlayerOf(gameState, Issuer).status = "waiting"
           /\ ~EveryReady(ToggleStatus(gameState, Issuer)))
          => /\ Accepted'
             /\ gameState'.phase = "pregame"
             /\ gameState'.players =
                    SetPlayerField(gameState, Issuer, "status", "ready").players
       /\ gameState.phase = "ingame" => gameState'.phase = "ingame"
       /\ (gameState.phase = "ingame" /\ CalledWith("toggle-ready")')
          => /\ RejectedWith(AlreadyStarted)'
             /\ rejects'[1].to = Issuer
             /\ broadcasts' = <<>>
             /\ gameState' = gameState
             /\ generated' = generated]_vars

\* two players connected, each toggled ready once, the game started, and a
\* further toggle-ready was rejected
C6_Witness ==
    /\ gameState.commands = <<ClientCommand("a", "connect-to-room"),
                              ClientCommand("b", "connect-to-room"),
                              ClientCommand("b", "toggle-ready"),
                              ClientCommand("a", "toggle-ready")>>
    /\ gameState.phase = "ingame"
    /\ startCompleted
    /\ CalledWith("toggle-ready")
    /\ RejectedWith(AlreadyStarted)

\* C7: a toggle-ready that makes the single seated player ready is rejected
\* to that player with reason 'Need at least two players to start game' and
\* commandId 'toggle-ready'; phase stays pregame, no deck is generated, no
\* card is dealt and activePlayerUid stays unset.
C7_SinglePlayerStartFails ==
    [][(TriggersStart /\ Len(gameState.players) <= 1)
       => /\ rejects' = <<[to |-> Issuer,
                           msg |-> [id |-> "reject",
                                    commandId |-> "toggle-ready",
                                    reason |-> NeedTwoPlayers]]>>
          /\ broadcasts' = <<>>
          /\ gameState'.phase = "pregame"
          /\ gameState'.activePlayerUid = Undefined
          /\ generated' = generated
          /\ gameState'.drawPile = <<>>
          /\ gameState'.discardPile = <<>>
          /\ gameState'.cardMap = <<>>
          /\ HandsEmpty(gameState')]_vars

\* the only seated player toggled ready and was refused the start
C7_Witness ==
    /\ Len(gameState.players) = 1
    /\ CalledWith("toggle-ready")
    /\ lastArg.player = gameState.players[1].uid
    /\ RejectedWith(NeedTwoPlayers)

\* messages of the errors executeCommand catches
Reasons == {NeedTwoPlayers, Overdraw, AlreadyStarted, TypeErrorMsg}

\* C8: every processed command has exactly one outcome: one broadcastUpdate
\* with one view per player seated after the command, computed from the
\* state after the mutation, and no sendReject; or one sendReject to the
\* originating uid with id 'reject', the command's id and the reason, and
\* no broadcastUpdate.
C8_ExactlyOneOutcome ==
    lastArg # NoCall =>
        /\ ~thrown
        /\ \/ /\ Len(broadcasts) = 1
              /\ rejects = <<>>
              /\ DOMAIN broadcasts[1] = PlayerUids(gameState)
              /\ \A uid \in PlayerUids(gameState) :
                    broadcasts[1][uid] = evalClientState(gameState, uid)
           \/ /\ broadcasts = <<>>
              /\ Len(rejects) = 1
              /\ rejects[1].to = lastArg.player
              /\ rejects[1].msg.id = "reject"
              /\ rejects[1].msg.commandId = lastArg.command.id
              /\ rejects[1].msg.reason \in Reasons

\* a failed command after a successful one that changed the table
C8_Witness ==
    /\ Len(gameState.players) = 2
    /\ Rejected
    /\ rejects[1].to = "c"
    /\ broadcasts = <<>>

\* C9: after startGame completes with n >= 2 players and a deck of
\* N >= 4*n+1 cards the draw pile holds N - 4*n - 1 cards, the discard pile
\* holds 1 card and every hand holds 4 cards stored face down.
C9_DealArithmetic ==
    startCompleted =>
        /\ Len(gameState.players) >= 2
        /\ Len(generated) >= CARDS_PER_HAND * Len(gameState.players) + 1
        /\ Len(gameState.drawPile) =
                Len(generated) - CARDS_PER_HAND * Len(gameState.players) - 1
        /\ Len(gameState.discardPile) = 1
        /\ \A i \in DOMAIN gameState.players :
                /\ Len(gameState.players[i].hand) = CARDS_PER_HAND
                /\ \A k \in DOMAIN gameState.players[i].hand :
                        gameState.players[i].hand[k].orientation = "down"

\* the toggle-ready that dealt a game of two from a deck of ten
C9_Witness ==
    /\ startCompleted
    /\ CalledWith("toggle-ready")
    /\ Accepted
    /\ Len(generated) = 10
    /\ Len(gameState.drawPile) = 1

\* C10: for every inbound message that parses to a well-formed client
\* command the handler hands that player and that command to
\* executeCommand, the call ends in a broadcast or in a rejection sent to
\* that player, and no exception propagates out of executeCommand.
C10_NoFailureEscapes ==
    message.json = "ok" =>
        /\ lastArg = message.value
        /\ ~thrown
        /\ \/ Accepted
           \/ /\ Rejected
              /\ broadcasts = <<>>
              /\ rejects[1].to = message.value.player

\* what the program shows of the latest call
Observed ==
    [gs |-> gameState, broadcasts |-> broadcasts, rejects |-> rejects,
     thrown |-> thrown, generated |-> generated, completed |-> startCompleted]

\* C11: commands are serialized: at most one callback is between its
\* first and its last step, a callback that begins finds the store as the
\* callbacks before it left it, and whenever no callback is running the
\* store and the outcome of the latest call are those of running the
\* callbacks one at a time, each as a whole, in arrival order.
C11_CommandsSerialized ==
    /\ Len(active) <= 1
    /\ \A i \in DOMAIN active :
            active[i].pc = "switch" =>
                gameState = Replay(BeforeAll,
                                   SubSeq(handled, 1, Len(handled) - 1)).gs
    /\ (active = <<>> /\ handled # <<>>) =>
            Observed = Replay(BeforeAll, handled)

\* a command is between its broadcast and its log append while another
\* one waits in the queue, after a first one has seated a player
C11_Witness ==
    /\ Len(handled) = 2
    /\ Len(active) = 1
    /\ active[1].pc = "push"
    /\ inbox # <<>>
    /\ Len(gameState.players) = 2

\* C12: phase starts at pregame, and once it is ingame no command of any
\* identifier from any player (restart-game and the disconnect of every
\* player included) sets it back to pregame.
C12_PhaseOneWay ==
    /\ gameState.phase = "pregame"
    /\ [][gameState.phase = "ingame" => gameState'.phase = "ingame"]_vars

\* restart-game was accepted in a started game
C12_Witness ==
    /\ gameState.phase = "ingame"
    /\ startCompleted
    /\ CalledWith("restart-game")
    /\ Accepted
    /\ gameState.commands[Len(gameState.commands)] =
            ClientCommand("a", "restart-game")

\* C13: the command log is append-only and records exactly the accepted
\* commands: an accepted command appends one {player, command} entry at
\* the end, a rejected command appends none, and the previous contents stay
\* as an unchanged prefix.
C13_LogAppendOnly ==
    [][/\ Accepted' =>
            gameState'.commands =
                Append(gameState.commands,
                       [player |-> lastArg'.player,
                        command |-> lastArg'.command])
       /\ Rejected' => gameState'.commands = gameState.commands
       /\ Len(gameState'.commands) >= Len(gameState.commands)
       /\ SubSeq(gameState'.commands, 1, Len(gameState.commands)) =
                gameState.commands]_vars

\* a command was rejected after three were accepted, the last one a
\* command outside the vocabulary
C13_Witness ==
    /\ Rejected
    /\ Len(gameState.commands) = 3
    /\ gameState.commands[1] = ClientCommand("a", "connect-to-room")
    /\ gameState.commands[3] = ClientCommand("b", "bogus")

\* the seated player's record without its isOnline flag
Seat(p) ==
    [uid |-> p.uid, status |-> p.status, position |-> p.position,
     hand |-> p.hand]

\* the seats of the players other than uid, by uid
OtherSeats(gs, uid) ==
    [u \in PlayerUids(gs) \ {uid} |-> PlayerOf(gs, u)]

\* C14: a disconnect-from-room of a seated player removes the player in
\* pregame and only sets isOnline false in ingame; a connect-to-room of an
\* unknown uid adds a player in pregame and nobody in ingame; a
\* connect-to-room of a seated uid only sets isOnline true; once the game
\* is ingame neither command changes the set of seated uids or any
\* player's position, status or hand.
C14_SeatLifecycle ==
    [][/\ (CalledWith("disconnect-from-room")' /\ HasPlayer(gameState, Issuer))
          => IF gameState.phase = "pregame"
             THEN /\ PlayerUids(gameState') = PlayerUids(gameState) \ {Issuer}
                  /\ \A u \in PlayerUids(gameState') :
                        [PlayerOf(gameState', u) EXCEPT !.position = 0] =
                            [PlayerOf(gameState, u) EXCEPT !.position = 0]
             ELSE /\ PlayerUids(gameState') = PlayerUids(gameState)
                  /\ PlayerOf(gameState', Issuer) =
                        [PlayerOf(gameState, Issuer) EXCEPT !.isOnline = FALSE]
                  /\ OtherSeats(gameState', Issuer) =
                        OtherSeats(gameState, Issuer)
       /\ (CalledWith("connect-to-room")' /\ ~HasPlayer(gameState, Issuer))
          => IF gameState.phase = "pregame"
             THEN /\ PlayerUids(gameState') = PlayerUids(gameState) \cup {Issuer}
                  /\ PlayerOf(gameState', Issuer) =
                        [uid |-> Issuer, status |-> "waiting",
                         position |-> Len(gameState.players),
                         hand |-> <<>>, isOnline |-> TRUE]
                  /\ OtherSeats(gameState', Issuer) =
                        OtherSeats(gameState, Issuer)
             ELSE gameState'.players = gameState.players
       /\ (CalledWith("connect-to-room")' /\ HasPlayer(gameState, Issuer))
          => /\ PlayerUids(gameState') = PlayerUids(gameState)
             /\ PlayerOf(gameState', Issuer) =
                    [PlayerOf(gameState, Issuer) EXCEPT !.isOnline = TRUE]
             /\ OtherSeats(gameState', Issuer) = OtherSeats(gameState, Issuer)
       /\ (/\ gameState.phase = "ingame"
           /\ \/ CalledWith("connect-to-room")'
              \/ CalledWith("disconnect-from-room")')
          => /\ PlayerUids(gameState') = PlayerUids(gameState)
             /\ \A u \in PlayerUids(gameState) :
                    Seat(PlayerOf(gameState', u)) = Seat(PlayerOf(gameState, u))
       /\ (\/ CalledWith("connect-to-room")'
           \/ CalledWith("disconnect-from-room")')
          => /\ gameState'.phase = gameState.phase
             /\ gameState'.drawPile = gameState.drawPile
             /\ gameState'.discardPile = gameState.discardPile
             /\ gameState'.cardMap = gameState.cardMap
             /\ gameState'.activePlayerUid = gameState.activePlayerUid]_vars

\* a third user connected to a started game of two and was not seated
C14_Witness ==
    /\ gameState.phase = "ingame"
    /\ startCompleted
    /\ CalledWith("connect-to-room")
    /\ Accepted
    /\ lastArg.player = "c"
    /\ PlayerUids(gameState) = {"a", "b"}

\* identifiers whose case has statements
ImplementedIds == {"connect-to-room", "disconnect-from-room", "toggle-ready"}

\* C15: a command whose identifier is one of the stubs or matches no case,
\* from any uid, seated or not, in any phase, is accepted: phase,
\* activePlayerUid, players, drawPile, discardPile and cardMap stay as they
\* were, there is one broadcast with a view for every seated player, one
\* entry is appended to the log, and there is no rejection.
C15_NoOpCommandsAccepted ==
    [][(/\ "command" \in DOMAIN lastArg'
        /\ "player" \in DOMAIN lastArg'
        /\ lastArg'.command.id \notin ImplementedIds)
       => /\ [gameState' EXCEPT !.commands = <<>>] =
                [gameState EXCEPT !.commands = <<>>]
          /\ Len(broadcasts') = 1
          /\ DOMAIN broadcasts'[1] = PlayerUids(gameState)
          /\ \A uid \in PlayerUids(gameState) :
                broadcasts'[1][uid] = evalClientState(gameState, uid)
          /\ gameState'.commands = Append(gameState.commands, lastArg')
          /\ rejects' = <<>>
          /\ ~thrown']_vars

\* the command outside the vocabulary of a user who is not seated was
\* accepted, broadcast to the seated player and logged
C15_Witness ==
    /\ CalledWith("bogus")
    /\ lastArg.player = "b"
    /\ PlayerUids(gameState) = {"a"}
    /\ Accepted
    /\ DOMAIN broadcasts[1] = {"a"}
    /\ gameState.commands[Len(gameState.commands)] = ClientCommand("b", "bogus")

\* the k-th card of the generated deck as a hand stores it
Dealt(k) ==
    [id |-> generated[k].id, payload |-> generated[k].payload,
     orientation |-> "down"]

\* C16: dealing is round-robin in position order: with n players and the
\* generated deck d[0..N-1] (top = last), the player at position p ends
\* with the hand [d[N-1-p], d[N-1-n-p], d[N-1-2n-p], d[N-1-3n-p]] in that
\* order and the discard pile is seeded with d[N-1-4n].  (generated is
\* indexed from 1: d[k] is generated[k+1].)
C16_RoundRobinDeal ==
    startCompleted =>
        \A arr \in {playersArray(gameState)} :
            LET n == Len(arr)
                N == Len(generated)
            IN  /\ \A p \in 0..(n - 1) :
                        /\ arr[p + 1].position = p
                        /\ arr[p + 1].hand =
                            <<Dealt(N - p), Dealt(N - n - p),
                              Dealt(N - 2 * n - p), Dealt(N - 3 * n - p)>>
                /\ gameState.discardPile = <<generated[N - 4 * n]>>

\* the toggle-ready that dealt a game of three from a deck of fourteen
C16_Witness ==
    /\ startCompleted
    /\ CalledWith("toggle-ready")
    /\ Accepted
    /\ Len(gameState.players) = 3
    /\ Len(generated) = 14
    /\ Len(gameState.drawPile) = 1

\* C17: a toggle-ready issued in pregame by a uid that is not seated is
\* rejected to that uid (one sendReject with commandId 'toggle-ready'),
\* with no broadcast, no log append and no change to the GameState.
C17_UnseatedToggleRejected ==
    [][(/\ gameState.phase = "pregame"
        /\ CalledWith("toggle-ready")'
        /\ ~HasPlayer(gameState, Issuer))
       => /\ Len(rejects') = 1
          /\ rejects'[1].to = Issuer
          /\ rejects'[1].msg.id = "reject"
          /\ rejects'[1].msg.commandId = "toggle-ready"
          /\ broadcasts' = <<>>
          /\ ~thrown'
          /\ gameState' = gameState]_vars

\* a user who is not seated sent toggle-ready to a lobby of two and was
\* rejected
C17_Witness ==
    /\ gameState.phase = "pregame"
    /\ PlayerUids(gameState) = {"a", "b"}
    /\ CalledWith("toggle-ready")
    /\ lastArg.player = "c"
    /\ rejects = <<[to |-> "c",
                    msg |-> [id |-> "reject", commandId |-> "toggle-ready",
                             reason |-> TypeErrorMsg]]>>

\* a lobby of two or more seated players who are all ready
AllReadyLobby(gs) ==
    /\ gs.phase = "pregame"
    /\ Len(gs.players) >= 2
    /\ EveryReady(gs)

\* C18: in every reachable state with phase pregame and two or more seated
\* players, at least one seated player has status waiting.
C18_FullRosterAlwaysStarts == ~AllReadyLobby(gameState)

\* C18, amended: the roster is examined only after the flip of a
\* toggle-ready.  No connect-to-room and no toggle-ready leads into a
\* pregame lobby of two or more players who are all ready; the only step
\* that does is the disconnect-from-room of a seated player who is waiting.
C18_OnlyDisconnectLeavesAllReady ==
    [][(AllReadyLobby(gameState') /\ ~AllReadyLobby(gameState))
       => /\ CalledWith("disconnect-from-room")'
          /\ HasPlayer(gameState, Issuer)
          /\ PlayerOf(gameState, Issuer).status = "waiting"
          /\ ~HasPlayer(gameState', Issuer)]_vars

\* the only waiting player of three left the lobby: two players, both
\* ready, and the game has not started
C18_Witness ==
    /\ AllReadyLobby(gameState)
    /\ CalledWith("disconnect-from-room")
    /\ Accepted
    /\ ~HasPlayer(gameState, lastArg.player)
    /\ Len(gameState.commands) = 6

\* C19: in every reachable state with phase pregame every seated player is
\* online and has an empty hand, the draw pile, the discard pile and
\* cardMap are empty, and activePlayerUid is unset.
C19_PregameInvariant ==
    gameState.phase = "pregame" =>
        /\ \A i \in DOMAIN gameState.players :
                /\ gameState.players[i].isOnline
                /\ gameState.players[i].hand = <<>>
        /\ gameState.drawPile = <<>>
        /\ gameState.discardPile = <<>>
        /\ DOMAIN gameState.cardMap = {}
        /\ gameState.activePlayerUid = Undefined

\* a player left a lobby of three
C19_Witness ==
    /\ gameState.phase = "pregame"
    /\ CalledWith("disconnect-from-room")
    /\ Accepted
    /\ Len(gameState.commands) = 4
    /\ Len(gameState.players) = 2
    /\ ~HasPlayer(gameState, lastArg.player)

\* C20: in every reachable state with phase ingame at least two players
\* are seated, every seated player has status ready, and activePlayerUid is
\* the uid of a seated player and keeps the value it received when the
\* game started.
C20_IngameInvariant ==
    /\ [](gameState.phase = "ingame" =>
            /\ Len(gameState.players) >= 2
            /\ EveryReady(gameState)
            /\ HasPlayer(gameState, gameState.activePlayerUid))
    /\ [][gameState.phase = "ingame" =>
            gameState'.activePlayerUid = gameState.activePlayerUid]_vars

\* the active player of a started game of two disconnected
C20_Witness ==
    /\ gameState.phase = "ingame"
    /\ startCompleted
    /\ CalledWith("disconnect-from-room")
    /\ Accepted
    /\ lastArg.player = gameState.activePlayerUid
    /\ ~PlayerOf(gameState, gameState.activePlayerUid).isOnline

=============================================================================
